---- MODULE Spec2Model ----
(***************************************************************************)
(* Model of conversor_video_a_MP4.py: the transcode engine                 *)
(* (get_media_duration, convert_to_target_size, run_command_show_progress, *)
(* build_ffmpeg_command) and the single-pass paths of its callers.         *)
(*                                                                         *)
(* Abstractions: durations and sizes are integers (seconds, megabytes);    *)
(* the arithmetic of lines 185-193 is exact on them (the values are far    *)
(* below 2^53, so the float division and subtraction round to the same     *)
(* floor).  A diagnostic line is a short sequence of characters ending in  *)
(* a newline; a text is the sequence of its characters.  The child process *)
(* (ffmpeg) is the environment: what it writes and its exit code are       *)
(* chosen when it is launched.  on_line is a callback that does not raise, *)
(* as the callers' callbacks (lines 329-331, 352, 385, 498-499).           *)
(***************************************************************************)
EXTENDS Integers, Sequences, FiniteSets, TLC

VARIABLES
    mode,             \* "size" | "bitrate" | "none": the caller's branch (319, 340, 357)
    target_mb,        \* convert_to_target_size parameter
    audio_bitrate_k,  \* convert_to_target_size parameter
    has_on_line,      \* whether on_line is a callable (default None, line 172)
    pc,               \* position of the run's logical task
    duration,         \* result of get_media_duration: None or Some(seconds)
    video_bitrate_k,  \* line 193
    passlog,          \* line 198: None or Some(path)
    fs,               \* files on disk whose name starts with the pass-log path
    launches,         \* every child-process launch attempted, in order
    events,           \* everything delivered to on_line, in order
    phase,            \* the phase run_command_show_progress is serving
    child,            \* "none" | "running" | "exited"
    errPlan,          \* lines the child has yet to write to stderr
    outPlan,          \* chunks the child has yet to write to stdout
    exitCode,         \* the code the child exits with
    errPipe,          \* the stderr pipe: lines written and not yet read
    outPipe,          \* the stdout pipe: chunks written (nobody reads them)
    written,          \* every line the child has written to stderr, in order
    reader,           \* the reader thread: "none" | "running" | "done"
    stderr_lines,     \* line 88
    evBase,           \* number of events delivered before the child was launched
    exits,            \* every child exit so far: its phase and exit code
    cmd,              \* the argument list about to be run
    ret,              \* value returned by run_command_show_progress
    result,           \* terminal value of the run as its caller sees it
    failedPhase,      \* the phase in which the run failed, "" when none
    FFMPEG_PATH,      \* module global, line 34
    FFPROBE_PATH,     \* module global, line 35
    libpc,            \* "import" | "ready" | "exited": before / after ensure_dependencies
    builds,           \* the calls of build_ffmpeg_command made so far
    probeCall,        \* the call of get_media_duration made outside a run
    gui,              \* ConverterGUI: the form's fields, the button, the worker
    runs,             \* concurrent two-pass runs: position and pass-log path of each
    disk              \* the temporary directory they share: files and their creators

vars == <<mode, target_mb, audio_bitrate_k, has_on_line, pc, duration,
          video_bitrate_k, passlog, fs, launches, events, phase, child,
          errPlan, outPlan, exitCode, errPipe, outPipe, written, reader,
          stderr_lines, evBase, exits, cmd, ret, result, failedPhase,
          FFMPEG_PATH, FFPROBE_PATH, libpc, builds, probeCall, gui, runs,
          disk>>

runner == <<child, errPlan, outPlan, exitCode, errPipe, outPipe, written,
            reader, stderr_lines, evBase, ret>>

\* the module globals and what is called on the module outside a run
\* the module's globals and the calls made on its functions
lib == <<FFMPEG_PATH, FFPROBE_PATH, libpc, builds, probeCall>>

ambient == <<lib, gui, runs, disk>>

inputs == <<mode, target_mb, audio_bitrate_k, has_on_line, ambient>>

\* the state of one run
run == <<pc, duration, video_bitrate_k, passlog, fs, launches, events, phase,
         exits, cmd, result, failedPhase, runner>>

-----------------------------------------------------------------------------
(* Bounds of the model *)

MaxTargetMB == 10      \* largest target size tried
MaxDuration == 120     \* largest probed duration tried (seconds)
MaxLines == 2          \* most diagnostic lines one child writes
MaxStdout == 2         \* most stdout chunks one child writes
PipeCap == 1           \* capacity of an OS pipe (lines / chunks)
MaxAudioK == 320       \* largest audio bitrate tried by the allocation alone
MaxBuilds == 2         \* most calls of build_ffmpeg_command followed
MaxRuns == 2           \* two-pass runs executing at the same time
MaxClicks == 2         \* conversions started from the window

(* Program constants *)

DefaultAudioK == 128   \* audio_bitrate_k=128
MinVideoKbps == 100    \* floor of the video bitrate
KilobitsPerMB == 8192  \* target_mb * 8192.0
DiagLimit == 2000      \* stderr[:2000]
DefaultCrf == 23       \* crf=23
DefaultVideoK == 1500  \* "1500" default of the bitrate prompt

\* the values the module globals can take
BareFfmpeg == "ffmpeg"                  \* the fallback of line 34
BareFfprobe == "ffprobe"                \* the fallback of line 35
ResolvedFfmpeg == "/usr/bin/ffmpeg"     \* shutil.which("ffmpeg")
ResolvedFfprobe == "/usr/bin/ffprobe"   \* shutil.which("ffprobe")
InstalledFfmpeg == "/opt/py/ffmpeg"     \* dest, line 624
InstalledFfprobe == "/opt/py/ffprobe"   \* dest.replace("ffmpeg", "ffprobe")
NoPath == "<None>"                      \* Python's None as a path
InputPath == "in.avi"
OutputPath == "out.mp4"
DefaultPreset == "medium"
devnull == "/dev/null"
TempName == "/tmp/tmpx"

None == <<>>
Some(x) == <<x>>

Range(s) == {s[i] : i \in 1..Len(s)}

IsPrefixOf(a, b) == Len(a) <= Len(b) /\ a = SubSeq(b, 1, Len(a))

SeqsUpTo(S, n) == UNION {[1..k -> S] : k \in 0..n}

-----------------------------------------------------------------------------
(* Texts *)

NL == "\n"
Lines == {<<"a", NL>>, <<"b", NL>>}

RECURSIVE Join(_)
\* "".join(stderr_lines), line 105
Join(ls) == IF ls = <<>> THEN <<>> ELSE Head(ls) \o Join(Tail(ls))

\* s[:n]
Prefix(s, n) == SubSeq(s, 1, IF Len(s) < n THEN Len(s) ELSE n)

-----------------------------------------------------------------------------
(* Bitrate arithmetic, lines 185-194 *)

\* f"{n}k"
Kbps(n) == ToString(n) \o "k"

\* VideoBitrateK without lines 190-191 (the floor of 100 forgotten)
MutVideoBitrateK_NoFloor(m, d, a) == (m * KilobitsPerMB - a * d) \div d

\* VideoBitrateK with a decimal megabyte (8000 kilobits instead of 8192)
MutVideoBitrateK_Decimal(m, d, a) ==
    IF m * 8000 - a * d < MinVideoKbps * d
    THEN MinVideoKbps
    ELSE (m * 8000 - a * d) \div d

\* lines 185-193: kbps_total - audio_kbps, raised to 100 when below it, floored.
\* video_kbps < 100  <=>  m*8192/d - a < 100  <=>  m*8192 - a*d < 100*d  (d > 0)
VideoBitrateK(m, d, a) ==
    IF m * KilobitsPerMB - a * d < MinVideoKbps * d
    THEN MinVideoKbps
    ELSE (m * KilobitsPerMB - a * d) \div d

-----------------------------------------------------------------------------
(* Command construction *)

\* line 216
Pass1Cmd(vk, preset, plog) ==
    <<FFMPEG_PATH, "-y", "-i", InputPath, "-passlogfile", plog,
      "-c:v", "libx264", "-b:v", Kbps(vk), "-preset", preset,
      "-pass", "1", "-an", "-f", "mp4", devnull>>

\* a pass-2 command that is given the total bitrate and a log path of its own
MutPass2Cmd_OwnValues(vk, ak, preset, plog) ==
    <<FFMPEG_PATH, "-y", "-i", InputPath, "-passlogfile", plog \o ".2",
      "-c:v", "libx264", "-b:v", Kbps(vk + ak), "-preset", preset,
      "-pass", "2", "-c:a", "aac", "-b:a", Kbps(ak),
      "-movflags", "+faststart", OutputPath>>

\* lines 225-227
Pass2Cmd(vk, ak, preset, plog) ==
    <<FFMPEG_PATH, "-y", "-i", InputPath, "-passlogfile", plog,
      "-c:v", "libx264", "-b:v", Kbps(vk), "-preset", preset,
      "-pass", "2", "-c:a", "aac", "-b:a", Kbps(ak),
      "-movflags", "+faststart", OutputPath>>

\* line 350 (and 529)
FixedBitrateCmd(vk, ak, preset) ==
    <<FFMPEG_PATH, "-y", "-i", InputPath, "-c:v", "libx264", "-b:v", Kbps(vk),
      "-preset", preset, "-c:a", "aac", "-b:a", Kbps(ak),
      "-movflags", "+faststart", OutputPath>>

\* build_ffmpeg_command that keeps the preset in the stream-copy branch
MutBuild_PresetInCopy(input_path, output_path, reencode, crf, preset, faststart) ==
    <<FFMPEG_PATH, "-y", "-i", input_path>>
    \o (IF reencode
        THEN <<"-c:v", "libx264", "-preset", preset, "-crf", ToString(crf)>>
             \o <<"-pix_fmt", "yuv420p">>
             \o <<"-c:a", "aac", "-b:a", "128k">>
        ELSE <<"-c", "copy", "-preset", preset>>)
    \o (IF faststart THEN <<"-movflags", "+faststart">> ELSE <<>>)
    \o <<output_path>>

\* lines 114-128
build_ffmpeg_command(input_path, output_path, reencode, crf, preset, faststart) ==
    <<FFMPEG_PATH, "-y", "-i", input_path>>
    \o (IF reencode
        THEN <<"-c:v", "libx264", "-preset", preset, "-crf", ToString(crf)>>
             \o <<"-pix_fmt", "yuv420p">>
             \o <<"-c:a", "aac", "-b:a", "128k">>
        ELSE <<"-c", "copy">>)
    \o (IF faststart THEN <<"-movflags", "+faststart">> ELSE <<>>)
    \o <<output_path>>

\* line 212: the argument list of the stray subprocess.run
NoopCmd == <<"-passlogfile">>

-----------------------------------------------------------------------------
(* get_media_duration, lines 132-168 *)

\* What ffprobe can print on stdout: nothing, text that float() rejects
\* (ffprobe prints N/A for an unknown duration), or a number.
ProbeValues == {-1, 0, 1, MaxDuration}
ProbeOutputs ==
    {[kind |-> "empty", val |-> 0], [kind |-> "text", val |-> 0]}
    \cup {[kind |-> "num", val |-> v] : v \in ProbeValues}

\* A line of "ffmpeg -i" stderr: whether it contains "Duration:", whether the
\* field splits into three numbers, and the numbers.
FallbackLines ==
    {[dur |-> FALSE, ok |-> FALSE, h |-> 0, m |-> 0, s |-> 0],
     [dur |-> TRUE, ok |-> FALSE, h |-> 0, m |-> 0, s |-> 0]}
    \cup {[dur |-> TRUE, ok |-> TRUE, h |-> 0, m |-> mm, s |-> ss] :
            mm \in {0, MaxDuration \div 60}, ss \in {0, 1}}

\* Everything the environment decides during one probe.
ProbeEnvs ==
    [which : BOOLEAN,          \* shutil.which(FFPROBE_PATH), line 139
     probeRaises : BOOLEAN,    \* subprocess.run raises, line 148
     probeRc : {0, 1},
     probeOut : ProbeOutputs,
     ffRaises : BOOLEAN,       \* subprocess.run raises, line 165
     ffLines : SeqsUpTo(FallbackLines, 2)]

RECURSIVE ScanDuration(_)
\* lines 155-164: the first line with a parsable Duration field decides
ScanDuration(ls) ==
    IF ls = <<>> THEN None
    ELSE IF Head(ls).dur /\ Head(ls).ok
         THEN Some(Head(ls).h * 3600 + Head(ls).m * 60 + Head(ls).s)
         ELSE ScanDuration(Tail(ls))

\* lines 152-168
FallbackDuration(e) == IF e.ffRaises THEN None ELSE ScanDuration(e.ffLines)

\* lines 139-168
get_media_duration(e) ==
    IF e.which /\ ~e.probeRaises /\ e.probeRc = 0
       /\ e.probeOut.kind # "empty" /\ e.probeOut.kind = "num"
    THEN Some(e.probeOut.val)
    ELSE FallbackDuration(e)

\* the outcome of a call of get_media_duration: line 139 evaluates
\* shutil.which(FFPROBE_PATH) outside every try, and shutil.which(None)
\* raises TypeError
NoProbeCall ==
    [called |-> FALSE, raised |-> FALSE, value |-> None, env |-> <<>>]
ProbeOutcome(e) ==
    IF FFPROBE_PATH = NoPath
    THEN [called |-> TRUE, raised |-> TRUE, value |-> None, env |-> <<e>>]
    ELSE [called |-> TRUE, raised |-> FALSE, value |-> get_media_duration(e),
          env |-> <<e>>]

-----------------------------------------------------------------------------
(* Values of the run *)

Modes == {"size", "bitrate", "none"}
TargetSizes == {1, MaxTargetMB}
AudioRates == {0, DefaultAudioK}
ExitCodes == {0, 1}
LogSuffixes == {"-0.log", "-0.log.mbtree"}

File(base, suffix) == [base |-> base, suffix |-> suffix]

\* glob.glob(passlog + "*"), line 232
Glob(files, plog) == {f \in files : f.base = plog}

SummaryEvent(vk, ak) ==
    [kind |-> "summary", video |-> vk, audio |-> ak, pass |-> 0, text |-> <<>>]
MarkerEvent(n) ==
    [kind |-> "marker", video |-> 0, audio |-> 0, pass |-> n, text |-> <<>>]
LineEvent(l) ==
    [kind |-> "line", video |-> 0, audio |-> 0, pass |-> 0, text |-> l]

\* on_line(x) guarded by "if on_line:"
Deliver(evs, new) == IF has_on_line THEN evs \o new ELSE evs

Returned(rc, text) == [type |-> "return", exc |-> "", rc |-> rc, text |-> text]
Raised(exc, rc, text) == [type |-> "raise", exc |-> exc, rc |-> rc, text |-> text]
NoResult == [type |-> "none", exc |-> "", rc |-> 0, text |-> <<>>]
NoRet == [rc |-> 0, stderr |-> <<>>]

Launch(ph, c, ok) == [phase |-> ph, cmd |-> c, started |-> ok]

\* "if duration is None or duration <= 0", line 179
DurationUnusable(d) == IF d = None THEN TRUE ELSE d[1] <= 0

-----------------------------------------------------------------------------
(* Initial states *)

\* what a text field of the form can hold, and what int() and float() make
\* of it (None when they raise ValueError); float values in tenths
Texts == {"", "abc", "2.5", "5"}
ParseInt(t) ==
    IF t = "5" THEN Some(5)
    ELSE IF t = "128" THEN Some(DefaultAudioK)
    ELSE None
ParseFloat(t) ==
    IF t = "5" THEN Some(50)
    ELSE IF t = "2.5" THEN Some(25)
    ELSE IF t = "128" THEN Some(DefaultAudioK * 10)
    ELSE None

Forms ==
    [pc : {"form"}, src_ok : BOOLEAN, dst_ok : BOOLEAN, ffmpeg_ok : BOOLEAN,
     reencode : BOOLEAN, compress_mb : Texts, vbr_k : Texts,
     ab_k : {"", "abc", "5"}, btn : {"normal"}, active : {""}, dialog : {""},
     threads : {<<>>}, pending : {0}]

\* no window: the program runs from the command line
NoForm ==
    [pc |-> "done", src_ok |-> FALSE, dst_ok |-> FALSE, ffmpeg_ok |-> FALSE,
     reencode |-> FALSE, compress_mb |-> "", vbr_k |-> "", ab_k |-> "",
     btn |-> "normal", active |-> "", dialog |-> "", threads |-> <<>>,
     pending |-> 0]

\* temporary file names: tempfile draws a random part of fixed length, here
\* two characters out of two
NameChars == {"a", "b"}
TempNames == {<<c1, c2>> : c1, c2 \in NameChars}
RunIds == 1..MaxRuns
LivePcs == {"tmp", "pass1", "pass2"}
NoRuns == [r \in RunIds |-> [pc |-> "off", passlog |-> None]]

RunnerInit ==
    /\ child = "none" /\ errPlan = <<>> /\ outPlan = 0 /\ exitCode = 0
    /\ errPipe = <<>> /\ outPipe = 0 /\ written = <<>> /\ reader = "none"
    /\ stderr_lines = <<>> /\ evBase = 0 /\ ret = NoRet

RunInit ==
    /\ video_bitrate_k = 0 /\ passlog = None /\ fs = {}
    /\ launches = <<>> /\ events = <<>> /\ phase = "" /\ exits = <<>>
    /\ cmd = <<>> /\ result = NoResult /\ failedPhase = ""
    /\ RunnerInit

\* a run of the engine: the globals resolved at import and checked
AmbientInit ==
    /\ FFMPEG_PATH = BareFfmpeg /\ FFPROBE_PATH = BareFfprobe
    /\ libpc = "ready" /\ builds = <<>> /\ probeCall = NoProbeCall
    /\ gui = NoForm /\ runs = NoRuns /\ disk = {}

Init ==
    /\ AmbientInit
    /\ mode \in Modes
    /\ \/ mode = "size" /\ target_mb \in TargetSizes
          /\ audio_bitrate_k \in AudioRates /\ has_on_line \in BOOLEAN
       \/ mode = "bitrate" /\ target_mb = 0
          /\ audio_bitrate_k \in AudioRates /\ has_on_line = TRUE
       \/ mode = "none" /\ target_mb = 0
          /\ audio_bitrate_k = 0 /\ has_on_line = TRUE
    /\ pc = "idle" /\ duration = None
    /\ RunInit

-----------------------------------------------------------------------------
(* convert_to_target_size, lines 172-240 *)

\* line 178
Probe ==
    /\ pc = "idle" /\ mode = "size"
    /\ \E e \in ProbeEnvs : duration' = get_media_duration(e)
    /\ pc' = "probed"
    /\ UNCHANGED <<inputs, video_bitrate_k, passlog, fs, launches, events,
                   phase, runner, exits, cmd, result, failedPhase>>

\* DurationUnknown with the check of line 179 placed after line 198: the
\* temporary file exists when the run fails
MutDurationUnknown_Late ==
    /\ pc = "probed" /\ DurationUnusable(duration)
    /\ passlog' = Some(TempName)
    /\ fs' = fs \cup {File(TempName, "")}
    /\ result' = Raised("DurationUnknown", 0, <<>>)
    /\ failedPhase' = "probe"
    /\ pc' = "done"
    /\ UNCHANGED <<inputs, duration, video_bitrate_k, launches,
                   events, phase, runner, exits, cmd>>

\* lines 179-180: raise RuntimeError("No se pudo determinar la duracion ...")
DurationUnknown ==
    /\ pc = "probed" /\ DurationUnusable(duration)
    /\ result' = Raised("DurationUnknown", 0, <<>>)
    /\ failedPhase' = "probe"
    /\ pc' = "done"
    /\ UNCHANGED <<inputs, duration, video_bitrate_k, passlog, fs, launches,
                   events, phase, runner, exits, cmd>>

\* lines 185-194
Allocate ==
    /\ pc = "probed" /\ ~DurationUnusable(duration)
    /\ video_bitrate_k' = VideoBitrateK(target_mb, duration[1], audio_bitrate_k)
    /\ pc' = "allocated"
    /\ UNCHANGED <<inputs, duration, passlog, fs, launches, events, phase,
                   runner, exits, cmd, result, failedPhase>>

\* lines 197-198: tempfile.NamedTemporaryFile(delete=False).name
MakeTemp ==
    /\ pc = "allocated"
    /\ passlog' = Some(TempName)
    /\ fs' = fs \cup {File(TempName, "")}
    /\ pc' = "tmp"
    /\ UNCHANGED <<inputs, duration, video_bitrate_k, launches, events, phase,
                   runner, exits, cmd, result, failedPhase>>

\* Announce with lines 208 and 209 exchanged: the marker before the summary
MutAnnounce_MarkerFirst ==
    /\ pc = "tmp"
    /\ events' = Deliver(events, <<MarkerEvent(1),
                                   SummaryEvent(video_bitrate_k, audio_bitrate_k)>>)
    /\ pc' = "noop"
    /\ UNCHANGED <<inputs, duration, video_bitrate_k, passlog, fs, launches,
                   phase, runner, exits, cmd, result, failedPhase>>

\* lines 207-209
Announce ==
    /\ pc = "tmp"
    /\ events' = Deliver(events, <<SummaryEvent(video_bitrate_k, audio_bitrate_k),
                                   MarkerEvent(1)>>)
    /\ pc' = "noop"
    /\ UNCHANGED <<inputs, duration, video_bitrate_k, passlog, fs, launches,
                   phase, runner, exits, cmd, result, failedPhase>>

\* lines 211-216: subprocess.run(["-passlogfile"]) is attempted; it raises (no
\* such executable, swallowed by the except) or, if the search path holds an
\* executable of that name, runs it.  Then the pass-1 command is built.
NoopLaunch ==
    /\ pc = "noop"
    /\ \E ran \in BOOLEAN :
         launches' = Append(launches, Launch("noop", NoopCmd, ran))
    /\ cmd' = Pass1Cmd(video_bitrate_k, DefaultPreset, passlog[1])
    /\ phase' = "pass1"
    /\ pc' = "popen"
    /\ UNCHANGED <<inputs, duration, video_bitrate_k, passlog, fs, events,
                   runner, exits, result, failedPhase>>

\* AfterPass1 that runs the pass-1 command again when it exited non-zero
MutAfterPass1_Retry ==
    /\ pc = "returned" /\ phase = "pass1"
    /\ IF ret.rc # 0
       THEN /\ pc' = "popen"
            /\ UNCHANGED <<events, cmd, phase>>
       ELSE /\ events' = Deliver(events, <<MarkerEvent(2)>>)
            /\ cmd' = Pass2Cmd(video_bitrate_k, audio_bitrate_k, DefaultPreset,
                               passlog[1])
            /\ phase' = "pass2"
            /\ pc' = "popen"
    /\ UNCHANGED <<inputs, duration, video_bitrate_k, passlog, fs, launches,
                   runner, exits, result, failedPhase>>

\* AfterPass1 without lines 218-220: pass 2 is run whatever pass 1 returned
MutAfterPass1_Continue ==
    /\ pc = "returned" /\ phase = "pass1"
    /\ events' = Deliver(events, <<MarkerEvent(2)>>)
    /\ cmd' = Pass2Cmd(video_bitrate_k, audio_bitrate_k, DefaultPreset, passlog[1])
    /\ phase' = "pass2"
    /\ pc' = "popen"
    /\ UNCHANGED <<inputs, duration, video_bitrate_k, passlog, fs, launches,
                   runner, exits, result, failedPhase>>

\* lines 218-227, after run_command_show_progress returned for pass 1
AfterPass1 ==
    /\ pc = "returned" /\ phase = "pass1"
    /\ IF ret.rc # 0
       THEN /\ result' = Raised("Pass1Failed", ret.rc, Prefix(ret.stderr, DiagLimit))
            /\ failedPhase' = "pass1"
            /\ pc' = "done"
            /\ UNCHANGED <<events, cmd, phase>>
       ELSE /\ events' = Deliver(events, <<MarkerEvent(2)>>)
            /\ cmd' = Pass2Cmd(video_bitrate_k, audio_bitrate_k, DefaultPreset,
                               passlog[1])
            /\ phase' = "pass2"
            /\ pc' = "popen"
            /\ UNCHANGED <<result, failedPhase>>
    /\ UNCHANGED <<inputs, duration, video_bitrate_k, passlog, fs, launches,
                   runner, exits>>

\* Cleanup without the try/except of lines 233-236: a failing os.remove
\* propagates to the caller
MutCleanup_Escalate ==
    /\ pc = "returned" /\ phase = "pass2"
    /\ \E kept \in SUBSET Glob(fs, passlog[1]) :
         /\ fs' = (fs \ Glob(fs, passlog[1])) \cup kept
         /\ result' = IF kept = {} THEN Returned(ret.rc, ret.stderr)
                      ELSE Raised("OSError", 0, <<>>)
    /\ failedPhase' = IF ret.rc # 0 THEN "pass2" ELSE ""
    /\ pc' = "done"
    /\ UNCHANGED <<inputs, duration, video_bitrate_k, passlog, launches,
                   events, phase, runner, exits, cmd>>

\* lines 230-240: every matching file is removed unless os.remove raises for
\* it; then (rc2, stderr2) is returned
Cleanup ==
    /\ pc = "returned" /\ phase = "pass2"
    /\ \E kept \in SUBSET Glob(fs, passlog[1]) :
         fs' = (fs \ Glob(fs, passlog[1])) \cup kept
    /\ result' = Returned(ret.rc, ret.stderr)
    /\ failedPhase' = IF ret.rc # 0 THEN "pass2" ELSE ""
    /\ pc' = "done"
    /\ UNCHANGED <<inputs, duration, video_bitrate_k, passlog, launches,
                   events, phase, runner, exits, cmd>>

-----------------------------------------------------------------------------
(* The single-pass paths of the callers, lines 340-389 and 520-542 *)

\* lines 341-350 (fixed bitrate) and 359-382 (re-encode or remux)
BuildSingle ==
    /\ pc = "idle" /\ mode \in {"bitrate", "none"}
    /\ IF mode = "bitrate"
       THEN cmd' = FixedBitrateCmd(DefaultVideoK, audio_bitrate_k, DefaultPreset)
       ELSE \E reencode \in BOOLEAN :
              cmd' = build_ffmpeg_command(InputPath, OutputPath, reencode,
                                          DefaultCrf, DefaultPreset, TRUE)
    /\ phase' = "single"
    /\ pc' = "popen"
    /\ UNCHANGED <<inputs, duration, video_bitrate_k, passlog, fs, launches,
                   events, runner, exits, result, failedPhase>>

\* FinishSingle that reports success whatever the exit code
MutFinishSingle_AlwaysOk ==
    /\ pc = "returned" /\ phase = "single"
    /\ result' = Returned(0, ret.stderr)
    /\ failedPhase' = ""
    /\ pc' = "done"
    /\ UNCHANGED <<inputs, duration, video_bitrate_k, passlog, fs, launches,
                   events, phase, runner, exits, cmd>>

\* lines 352-356, 385-389, 536-542: the caller reports rc
FinishSingle ==
    /\ pc = "returned" /\ phase = "single"
    /\ result' = Returned(ret.rc, ret.stderr)
    /\ failedPhase' = IF ret.rc # 0 THEN "single" ELSE ""
    /\ pc' = "done"
    /\ UNCHANGED <<inputs, duration, video_bitrate_k, passlog, fs, launches,
                   events, phase, runner, exits, cmd>>

-----------------------------------------------------------------------------
(* run_command_show_progress, lines 82-105, and the child it launches *)

LaunchOutcomes == {"started", "FileNotFoundError", "OSError"}

\* lines 88-102: Popen, then the reader thread is started.  FileNotFoundError
\* becomes RuntimeError (line 92); any other OSError propagates as it is.
Popen ==
    /\ pc = "popen"
    /\ \E o \in LaunchOutcomes :
         /\ launches' = Append(launches, Launch(phase, cmd, o = "started"))
         /\ IF o = "started"
            THEN /\ child' = "running"
                 /\ errPlan' \in SeqsUpTo(Lines, MaxLines)
                 /\ outPlan' \in 0..MaxStdout
                 /\ exitCode' \in ExitCodes
                 /\ errPipe' = <<>> /\ outPipe' = 0 /\ written' = <<>>
                 /\ stderr_lines' = <<>>
                 /\ evBase' = Len(events)
                 /\ reader' = "running"
                 /\ ret' = NoRet
                 /\ pc' = "wait"
                 /\ UNCHANGED <<result, failedPhase>>
            ELSE /\ result' = Raised(IF o = "FileNotFoundError"
                                     THEN "RuntimeError" ELSE o, 0, <<>>)
                 /\ failedPhase' = phase
                 /\ pc' = "done"
                 /\ UNCHANGED runner
    /\ UNCHANGED <<inputs, duration, video_bitrate_k, passlog, fs, events,
                   phase, exits, cmd>>

\* the child writes its next diagnostic line; it blocks while the pipe is full
ChildWriteErr ==
    /\ child = "running" /\ errPlan # <<>> /\ Len(errPipe) < PipeCap
    /\ errPipe' = Append(errPipe, Head(errPlan))
    /\ written' = Append(written, Head(errPlan))
    /\ errPlan' = Tail(errPlan)
    /\ UNCHANGED <<inputs, pc, duration, video_bitrate_k, passlog, fs, launches,
                   events, phase, child, outPlan, exitCode, outPipe, reader,
                   stderr_lines, evBase, exits, cmd, ret, result, failedPhase>>

\* the child writes a chunk to stdout; it blocks while the pipe is full
ChildWriteOut ==
    /\ child = "running" /\ outPlan > 0 /\ outPipe < PipeCap
    /\ outPipe' = outPipe + 1
    /\ outPlan' = outPlan - 1
    /\ UNCHANGED <<inputs, pc, duration, video_bitrate_k, passlog, fs, launches,
                   events, phase, child, errPlan, exitCode, errPipe, written,
                   reader, stderr_lines, evBase, exits, cmd, ret, result,
                   failedPhase>>

\* the child exits once it has written everything; a pass-1 encoder leaves its
\* statistics files next to the pass-log path (all of them when it succeeds)
ChildExit ==
    /\ child = "running" /\ errPlan = <<>> /\ outPlan = 0
    /\ child' = "exited"
    /\ exits' = Append(exits, [phase |-> phase, rc |-> exitCode])
    /\ IF phase = "pass1"
       THEN \E made \in SUBSET LogSuffixes :
              /\ exitCode = 0 => made = LogSuffixes
              /\ fs' = fs \cup {File(passlog[1], x) : x \in made}
       ELSE fs' = fs
    /\ UNCHANGED <<inputs, pc, duration, video_bitrate_k, passlog, launches,
                   events, phase, errPlan, outPlan, exitCode, errPipe, outPipe,
                   written, reader, stderr_lines, evBase, cmd, ret, result,
                   failedPhase>>

\* lines 95-98: one iteration of "for line in proc.stderr"
ReaderRead ==
    /\ reader = "running" /\ errPipe # <<>>
    /\ stderr_lines' = Append(stderr_lines, Head(errPipe))
    /\ events' = Deliver(events, <<LineEvent(Head(errPipe))>>)
    /\ errPipe' = Tail(errPipe)
    /\ UNCHANGED <<inputs, pc, duration, video_bitrate_k, passlog, fs, launches,
                   phase, child, errPlan, outPlan, exitCode, outPipe, written,
                   reader, evBase, exits, cmd, ret, result, failedPhase>>

\* lines 95, 99: end-of-file on stderr (pipe empty, write end closed)
ReaderEOF ==
    /\ reader = "running" /\ errPipe = <<>> /\ child = "exited"
    /\ reader' = "done"
    /\ UNCHANGED <<inputs, pc, duration, video_bitrate_k, passlog, fs, launches,
                   events, phase, child, errPlan, outPlan, exitCode, errPipe,
                   outPipe, written, stderr_lines, evBase, exits, cmd, ret,
                   result, failedPhase>>

\* run_command_show_progress that returns 0 right after Popen, without
\* proc.wait() and t.join()
MutWait_Detached ==
    /\ pc = "wait"
    /\ ret' = [rc |-> 0, stderr |-> Join(stderr_lines)]
    /\ pc' = "returned"
    /\ UNCHANGED <<inputs, duration, video_bitrate_k, passlog, fs, launches,
                   events, phase, child, errPlan, outPlan, exitCode, errPipe,
                   outPipe, written, reader, stderr_lines, evBase, exits, cmd,
                   result, failedPhase>>

\* Wait followed by the return of line 105, without the t.join() of line 104
MutWait_NoJoin ==
    /\ pc = "wait" /\ child = "exited"
    /\ ret' = [rc |-> exitCode, stderr |-> Join(stderr_lines)]
    /\ pc' = "returned"
    /\ UNCHANGED <<inputs, duration, video_bitrate_k, passlog, fs, launches,
                   events, phase, child, errPlan, outPlan, exitCode, errPipe,
                   outPipe, written, reader, stderr_lines, evBase, exits, cmd,
                   result, failedPhase>>

\* line 103: proc.wait() returns once the child has exited
Wait ==
    /\ pc = "wait" /\ child = "exited"
    /\ pc' = "join"
    /\ UNCHANGED <<inputs, duration, video_bitrate_k, passlog, fs, launches,
                   events, phase, runner, exits, cmd, result, failedPhase>>

\* JoinReturn that raises on a non-zero exit code, as subprocess.check_call does
MutJoinReturn_CheckCall ==
    /\ pc = "join" /\ reader = "done"
    /\ IF exitCode # 0
       THEN /\ result' = Raised("CalledProcessError", exitCode, <<>>)
            /\ failedPhase' = phase
            /\ pc' = "done"
            /\ UNCHANGED ret
       ELSE /\ ret' = [rc |-> exitCode, stderr |-> Join(stderr_lines)]
            /\ pc' = "returned"
            /\ UNCHANGED <<result, failedPhase>>
    /\ UNCHANGED <<inputs, duration, video_bitrate_k, passlog, fs, launches,
                   events, phase, child, errPlan, outPlan, exitCode, errPipe,
                   outPipe, written, reader, stderr_lines, evBase, exits, cmd>>

\* lines 104-105: t.join() returns once the reader has ended, then the return
JoinReturn ==
    /\ pc = "join" /\ reader = "done"
    /\ ret' = [rc |-> exitCode, stderr |-> Join(stderr_lines)]
    /\ pc' = "returned"
    /\ UNCHANGED <<inputs, duration, video_bitrate_k, passlog, fs, launches,
                   events, phase, child, errPlan, outPlan, exitCode, errPipe,
                   outPipe, written, reader, stderr_lines, evBase, exits, cmd,
                   result, failedPhase>>

-----------------------------------------------------------------------------
(* The module's globals and functions outside a run *)

\* lines 38-49: False when the bare name is not on the search path, when the
\* path is None (subprocess.run raises TypeError, swallowed at 47) or when
\* "ffmpeg -version" does not exit with 0
check_ffmpeg(path, onSearchPath, versionOk) ==
    IF path = BareFfmpeg /\ ~onSearchPath THEN FALSE
    ELSE IF path = NoPath THEN FALSE
    ELSE versionOk

\* lines 566-644, the part on ffmpeg: nothing changes when check_ffmpeg()
\* succeeds; otherwise ffmpeg is installed and both globals are resolved
\* again (587-588 on Windows, 634-635 elsewhere), and the program exits
\* unless check_ffmpeg() now succeeds
ensure_dependencies ==
    /\ libpc = "import"
    /\ \E found0 \in BOOLEAN, ok0 \in BOOLEAN :
         IF check_ffmpeg(FFMPEG_PATH, found0, ok0)
         THEN /\ libpc' = "ready"
              /\ UNCHANGED <<FFMPEG_PATH, FFPROBE_PATH>>
         ELSE \E os \in {"nt", "posix"}, installed \in BOOLEAN, ok1 \in BOOLEAN,
                 wf \in {NoPath, ResolvedFfmpeg}, wp \in {NoPath, ResolvedFfprobe} :
                IF ~installed
                THEN /\ libpc' = "exited"
                     /\ UNCHANGED <<FFMPEG_PATH, FFPROBE_PATH>>
                ELSE /\ FFMPEG_PATH' =
                          IF os = "posix" /\ wf = NoPath THEN InstalledFfmpeg ELSE wf
                     /\ FFPROBE_PATH' =
                          IF os = "posix" /\ wp = NoPath THEN InstalledFfprobe ELSE wp
                     /\ libpc' = IF check_ffmpeg(FFMPEG_PATH', TRUE, ok1)
                                 THEN "ready" ELSE "exited"
    /\ UNCHANGED <<mode, target_mb, audio_bitrate_k, has_on_line, builds,
                   probeCall, run, gui, runs, disk>>

\* a call of get_media_duration(input_path) once the dependencies are checked
CallProbe ==
    /\ libpc = "ready" /\ ~probeCall.called
    /\ \E e \in ProbeEnvs : probeCall' = ProbeOutcome(e)
    /\ UNCHANGED <<mode, target_mb, audio_bitrate_k, has_on_line, FFMPEG_PATH,
                   FFPROBE_PATH, libpc, builds, run, gui, runs, disk>>

Crfs == {18, DefaultCrf}
Presets == {DefaultPreset, "fast"}

\* a call of build_ffmpeg_command as the callers make it (lines 380, 382, 532,
\* 534: faststart left at its default); the function is a module-level one,
\* callable before and after ensure_dependencies
CallBuild ==
    /\ libpc \in {"import", "ready"} /\ Len(builds) < MaxBuilds
    /\ \E reencode \in BOOLEAN, crf \in Crfs, preset \in Presets :
         builds' = Append(builds,
             [reencode |-> reencode, crf |-> crf, preset |-> preset,
              out |-> build_ffmpeg_command(InputPath, OutputPath, reencode,
                                           crf, preset, TRUE)])
    /\ UNCHANGED <<mode, target_mb, audio_bitrate_k, has_on_line, FFMPEG_PATH,
                   FFPROBE_PATH, libpc, probeCall, run, gui, runs, disk>>

-----------------------------------------------------------------------------
(* The window: ConverterGUI.start_conversion and its worker thread *)

\* lines 474-549, a click on the Convert button (a disabled button runs no
\* command): three refusals, then the fields are read, the button is
\* disabled (495) and the worker thread is started (548-549)
start_conversion ==
    /\ gui.pc \in {"form", "done"} /\ gui.btn = "normal"
    /\ gui' = IF ~gui.src_ok
              THEN [gui EXCEPT !.pc = "done", !.dialog = "warn_src"]
              ELSE IF ~gui.dst_ok
              THEN [gui EXCEPT !.pc = "done", !.dialog = "warn_dst"]
              ELSE IF ~gui.ffmpeg_ok
              THEN [gui EXCEPT !.pc = "done", !.dialog = "no_ffmpeg"]
              ELSE [gui EXCEPT !.pc = "worker", !.btn = "disabled",
                               !.active = "", !.dialog = "",
                               !.threads = Append(gui.threads, "run")]
    /\ Len(gui'.threads) <= MaxClicks
    /\ UNCHANGED <<mode, target_mb, audio_bitrate_k, has_on_line, lib, run,
                   runs, disk>>

\* the mode the worker runs, lines 504-536: "" when it refuses the fields
SelectMode(compress_mb, vbr_k, ab_k) ==
    IF compress_mb # ""
    THEN IF ParseFloat(compress_mb) = None \/ ParseInt(ab_k) = None
         THEN "" ELSE "size"
    ELSE IF vbr_k # ""
    THEN IF ParseInt(vbr_k) = None \/ ParseInt(ab_k) = None
         THEN "" ELSE "bitrate"
    ELSE "none"

\* lines 501-546, a worker thread from its start to its end.
\* ensure_parent_dir (502) stands before the try of 503: when os.makedirs
\* raises, the thread ends with nothing shown and nothing scheduled.  Inside
\* the try the worker selects the mode and runs the conversion (exit code 0,
\* another exit code, or an exception); invalid numbers schedule a re-enable
\* of the button (510, 527) and return; the finally of 545-546 schedules a
\* re-enable on every path through the try.
worker ==
    /\ \E i \in 1..Len(gui.threads) :
         /\ gui.threads[i] = "run"
         /\ LET m == SelectMode(gui.compress_mb, gui.vbr_k,
                                IF gui.ab_k = "" THEN "128" ELSE gui.ab_k)
            IN  \E mkdir \in {"ok", "raises"} :
                  IF mkdir = "raises"
                  THEN gui' = [gui EXCEPT !.pc = "done", !.threads[i] = "crashed"]
                  ELSE IF m = ""
                  THEN gui' = [gui EXCEPT !.pc = "done", !.threads[i] = "ended",
                                          !.dialog = "invalid",
                                          !.pending = gui.pending + 2]
                  ELSE \E outcome \in {"ok", "rc", "error"} :
                         gui' = [gui EXCEPT !.pc = "done", !.threads[i] = "ended",
                                            !.active = m, !.dialog = outcome,
                                            !.pending = gui.pending + 1]
    /\ UNCHANGED <<mode, target_mb, audio_bitrate_k, has_on_line, lib, run,
                   runs, disk>>

\* the Tk main loop runs one callback queued with root.after(0, ...): the
\* re-enable of the button
mainloop ==
    /\ gui.pending > 0
    /\ gui' = [gui EXCEPT !.pending = gui.pending - 1, !.btn = "normal"]
    /\ UNCHANGED <<mode, target_mb, audio_bitrate_k, has_on_line, lib, run,
                   runs, disk>>

-----------------------------------------------------------------------------
(* Several two-pass runs sharing the temporary directory *)

\* a temporary name taken without the exclusive creation (mktemp-like)
MutRunMakeTemp_NotExclusive(r) ==
    /\ runs[r].pc = "idle"
    /\ \E n \in TempNames :
         /\ disk' = {f \in disk : f.name # n} \cup {[name |-> n, owner |-> r]}
         /\ runs' = [runs EXCEPT ![r] = [pc |-> "tmp", passlog |-> Some(n)]]
    /\ UNCHANGED <<mode, target_mb, audio_bitrate_k, has_on_line, lib, run, gui>>

\* line 198: NamedTemporaryFile(delete=False) creates a file under a name no
\* existing file has (O_EXCL, another name is drawn on a collision)
RunMakeTemp(r) ==
    /\ runs[r].pc = "idle"
    /\ \E n \in TempNames :
         /\ n \notin {f.name : f \in disk}
         /\ disk' = disk \cup {[name |-> n, owner |-> r]}
         /\ runs' = [runs EXCEPT ![r] = [pc |-> "tmp", passlog |-> Some(n)]]
    /\ UNCHANGED <<mode, target_mb, audio_bitrate_k, has_on_line, lib, run, gui>>

\* lines 216-228: a pass of the encoder writes (or overwrites) log files
\* named passlog + suffix and the run moves on
RunPass(r) ==
    /\ runs[r].pc \in {"tmp", "pass1"}
    /\ \E S \in SUBSET LogSuffixes :
         LET names == {runs[r].passlog[1] \o <<suf>> : suf \in S}
         IN  disk' = {f \in disk : f.name \notin names}
                     \cup {[name |-> n, owner |-> r] : n \in names}
    /\ runs' = [runs EXCEPT ![r].pc = IF runs[r].pc = "tmp" THEN "pass1" ELSE "pass2"]
    /\ UNCHANGED <<mode, target_mb, audio_bitrate_k, has_on_line, lib, run, gui>>

\* lines 92, 220: a pass that cannot be launched, or pass 1 exiting non-zero,
\* ends the run with its files left behind
RunFail(r) ==
    /\ runs[r].pc \in {"tmp", "pass1"}
    /\ runs' = [runs EXCEPT ![r].pc = "failed"]
    /\ UNCHANGED <<mode, target_mb, audio_bitrate_k, has_on_line, lib, run, gui,
                   disk>>

\* lines 230-238: every file matching passlog + "*" is removed, a failing
\* os.remove is ignored
RunCleanup(r) ==
    /\ runs[r].pc = "pass2"
    /\ LET matched == {f \in disk : IsPrefixOf(runs[r].passlog[1], f.name)}
       IN  \E kept \in SUBSET matched : disk' = disk \ (matched \ kept)
    /\ runs' = [runs EXCEPT ![r].pc = "done"]
    /\ UNCHANGED <<mode, target_mb, audio_bitrate_k, has_on_line, lib, run, gui>>

-----------------------------------------------------------------------------
(* Specifications *)

Next ==
    \/ Probe \/ DurationUnknown \/ Allocate \/ MakeTemp \/ Announce
    \/ NoopLaunch \/ AfterPass1 \/ Cleanup
    \/ BuildSingle \/ FinishSingle
    \/ Popen \/ ChildWriteErr \/ ChildWriteOut \/ ChildExit
    \/ ReaderRead \/ ReaderEOF \/ Wait \/ JoinReturn

Spec == Init /\ [][Next]_vars

\* The operating system schedules every runnable thread and process: a step
\* that stays possible is eventually taken.
FairSpec == Spec /\ WF_vars(Next)

(* The module right after import: the globals as lines 34-35 resolve them *)

InitLib ==
    /\ FFMPEG_PATH \in {BareFfmpeg, ResolvedFfmpeg}
    /\ FFPROBE_PATH \in {BareFfprobe, ResolvedFfprobe}
    /\ libpc = "import" /\ builds = <<>> /\ probeCall = NoProbeCall
    /\ gui = NoForm /\ runs = NoRuns /\ disk = {}
    /\ mode = "none" /\ target_mb = 0 /\ audio_bitrate_k = 0
    /\ has_on_line = TRUE
    /\ pc = "lib" /\ duration = None
    /\ RunInit

\* main(): ensure_dependencies, then the duration probe of a run
NextProbe == ensure_dependencies \/ CallProbe

SpecProbe == InitLib /\ [][NextProbe]_vars

\* the command builder called around the dependency check
NextBuild == ensure_dependencies \/ CallBuild

SpecBuild == InitLib /\ [][NextBuild]_vars

(* The window with every combination of its fields *)

InitForm ==
    /\ FFMPEG_PATH = BareFfmpeg /\ FFPROBE_PATH = BareFfprobe
    /\ libpc = "ready" /\ builds = <<>> /\ probeCall = NoProbeCall
    /\ gui \in Forms /\ runs = NoRuns /\ disk = {}
    /\ mode = "none" /\ target_mb = 0 /\ audio_bitrate_k = 0
    /\ has_on_line = TRUE
    /\ pc = "gui" /\ duration = None
    /\ RunInit

NextForm == start_conversion \/ worker \/ mainloop

SpecForm == InitForm /\ [][NextForm]_vars

-----------------------------------------------------------------------------
(* Two-pass runs started side by side, as threads or processes of one user *)

InitConc ==
    /\ FFMPEG_PATH = BareFfmpeg /\ FFPROBE_PATH = BareFfprobe
    /\ libpc = "ready" /\ builds = <<>> /\ probeCall = NoProbeCall
    /\ gui = NoForm
    /\ runs = [r \in RunIds |-> [pc |-> "idle", passlog |-> None]]
    /\ disk = {}
    /\ mode = "size" /\ target_mb = 1 /\ audio_bitrate_k = DefaultAudioK
    /\ has_on_line = TRUE
    /\ pc = "conc" /\ duration = None
    /\ RunInit

NextConc ==
    \E r \in RunIds :
        RunMakeTemp(r) \/ RunPass(r) \/ RunFail(r) \/ RunCleanup(r)

SpecConc == InitConc /\ [][NextConc]_vars

-----------------------------------------------------------------------------


AllocAudioRates == {0, 64, DefaultAudioK, MaxAudioK}

InitAlloc ==
    /\ AmbientInit
    /\ mode = "size"
    /\ target_mb \in 1..MaxTargetMB
    /\ audio_bitrate_k \in AllocAudioRates
    /\ has_on_line = TRUE
    /\ pc = "probed"
    /\ duration \in {Some(d) : d \in 1..MaxDuration}
    /\ RunInit

NextAlloc == Allocate

SpecAlloc == InitAlloc /\ [][NextAlloc]_vars

-----------------------------------------------------------------------------
(* Properties *)

Last(s) == s[Len(s)]
Max(a, b) == IF a >= b THEN a ELSE b

\* the argument that follows flag in an argument list
ArgAfter(c, flag) == c[(CHOOSE i \in 1..Len(c) : c[i] = flag) + 1]

EncoderLaunches == {i \in 1..Len(launches) : launches[i].phase # "noop"}
LaunchErrors == {"RuntimeError", "OSError"}

\* the lines delivered to on_line since the current child was launched
DeliveredSince == [i \in 1..(Len(events) - evBase) |-> events[evBase + i]]

Pass1ExitedNonZero ==
    \E i \in 1..Len(exits) : exits[i].phase = "pass1" /\ exits[i].rc # 0

C2_ArtifactsRemovedOnEveryPath ==
    (pc = "done" /\ passlog # None) => Glob(fs, passlog[1]) = {}

\* C3: in a target-size run with a known positive duration the only launches
\* attempted after probing are the pass-1 command (no audio, null sink) and
\* then the pass-2 command (same pass-log path, destination file): at most two
\* launches, and exactly those two once both passes have run.
C3_ExactlyTwoLaunches ==
    mode = "size" =>
        /\ Len(launches) <= 2
        /\ \A i \in 1..Len(launches) : launches[i].phase = (IF i = 1 THEN "pass1" ELSE "pass2")
        /\ (pc = "done" /\ result.type = "return") =>
              /\ Len(launches) = 2
              /\ "-an" \in Range(launches[1].cmd)
              /\ Last(launches[1].cmd) = devnull
              /\ ArgAfter(launches[2].cmd, "-passlogfile")
                   = ArgAfter(launches[1].cmd, "-passlogfile")
              /\ Last(launches[2].cmd) = OutputPath

C5_StdoutDrainedCallReturns == (pc = "wait") ~> (pc = "returned")

\* C6: a target-size run whose probed duration is None or not greater than 0
\* ends with the duration failure, and no process has been launched and no
\* temporary file has been created in it.
C6_UnknownDurationFailsFast ==
    (mode = "size" /\ pc # "idle" /\ DurationUnusable(duration)) =>
        /\ pc \in {"probed", "done"}
        /\ launches = <<>> /\ exits = <<>>
        /\ passlog = None /\ fs = {}
        /\ pc = "done" => (result.type = "raise" /\ result.exc = "DurationUnknown")

C6_Witness ==
    /\ mode = "size" /\ pc = "done" /\ duration = Some(0)
    /\ result.exc = "DurationUnknown"

\* C7: the video bitrate given to the pass-1 and the pass-2 command is the
\* computed one, and it is at least 100 kbps.
C7_VideoBitrateAtLeastFloor ==
    \A i \in EncoderLaunches :
        launches[i].phase \in {"pass1", "pass2"} =>
            /\ ArgAfter(launches[i].cmd, "-b:v") = Kbps(video_bitrate_k)
            /\ video_bitrate_k >= MinVideoKbps

C7_Witness ==
    /\ pc = "done" /\ result.type = "return"
    /\ \E i \in EncoderLaunches : launches[i].phase = "pass1"
    /\ \E i \in EncoderLaunches : launches[i].phase = "pass2"
    /\ video_bitrate_k = MinVideoKbps
    /\ target_mb * KilobitsPerMB < MinVideoKbps * duration[1]

\* C8: for integers m > 0, d > 0, a >= 0 within the bounds the computed video
\* bitrate is max(100, floor(m*8192/d - a)); m=10, d=120, a=128 gives 554.
C8_VideoBitrateFormula ==
    pc = "allocated" =>
        /\ video_bitrate_k
             = Max(100, (target_mb * 8192) \div duration[1] - audio_bitrate_k)
        /\ (target_mb = 10 /\ duration[1] = 120 /\ audio_bitrate_k = 128)
             => video_bitrate_k = 554

C8_Witness ==
    /\ pc = "allocated"
    /\ target_mb = 10 /\ duration = Some(120) /\ audio_bitrate_k = 128
    /\ video_bitrate_k = 554

\* the phase a terminal result names, as far as the result says
ResultPhase(r) ==
    CASE r.exc = "DurationUnknown" -> "probe"
      [] r.exc = "Pass1Failed" -> "pass1"
      [] r.type = "return" /\ mode = "size" -> "pass2"
      [] r.type = "return" /\ mode # "size" -> "single"
      [] OTHER -> "unnamed"

\* C9: every failed run's terminal result names the phase that failed, when
\* the phase's process exited non-zero and when it could not be launched, and
\* carries the diagnostic text of the process that ran.
C9_FailureNamesPhase ==
    (pc = "done" /\ failedPhase # "") =>
        /\ ResultPhase(result) = failedPhase
        /\ (EncoderLaunches # {} /\ Last(launches).started)
              => result.text = Join(written)

\* C10: run_command_show_progress raises exactly when the launch failed; once
\* the child was started the call returns the child's exit code, zero or not,
\* as a value.
C10_ExitCodeReturnedNotRaised ==
    /\ pc = "returned" => (Last(launches).started /\ child = "exited"
                           /\ ret.rc = exitCode)
    /\ \A i \in EncoderLaunches :
         ~launches[i].started =>
            /\ i = Len(launches) /\ pc = "done"
            /\ result.type = "raise" /\ result.exc \in LaunchErrors
    /\ (pc = "done" /\ EncoderLaunches # {} /\ Last(launches).started) =>
            /\ result.exc \notin LaunchErrors
            /\ ret.rc = exitCode /\ result.rc = exitCode

C10_Witness ==
    /\ pc = "returned" /\ ret.rc = 1 /\ exitCode = 1 /\ result.type = "none"

Marker2Index == CHOOSE i \in 1..Len(events) : events[i] = MarkerEvent(2)

\* the line events of a sequence of lines
LineEvents(ls) == [i \in 1..Len(ls) |-> LineEvent(ls[i])]

\* C12: in a two-pass run with a callback the first event is the summary of
\* the computed bitrates and the second the pass-1 marker; every line of
\* pass 1 lies between the pass-1 marker and the pass-2 marker, and what
\* follows the pass-2 marker are lines written by the pass-2 child only.
C12_MarkersPrecedeLines ==
    (mode = "size" /\ has_on_line /\ events # <<>>) =>
        /\ Len(events) >= 2
        /\ events[1] = SummaryEvent(video_bitrate_k, audio_bitrate_k)
        /\ events[2] = MarkerEvent(1)
        /\ phase = "pass1" =>
             /\ \A i \in 3..Len(events) : events[i].kind = "line"
             /\ IF Last(launches).phase = "pass1" /\ Last(launches).started
                THEN /\ evBase = 2
                     /\ IsPrefixOf(DeliveredSince, LineEvents(written))
                ELSE Len(events) = 2
        /\ phase = "pass2" =>
             /\ \E i \in 3..Len(events) : events[i] = MarkerEvent(2)
             /\ \A i \in 3..Len(events) :
                  i # Marker2Index => events[i].kind = "line"
             /\ IF Last(launches).phase = "pass2" /\ Last(launches).started
                THEN /\ evBase = Marker2Index
                     /\ IsPrefixOf(DeliveredSince, LineEvents(written))
                ELSE Len(events) = Marker2Index

C12_Witness ==
    /\ mode = "size" /\ has_on_line /\ pc = "done" /\ Len(exits) = 2
    /\ Marker2Index = 4 /\ Len(events) = 6

\* C14: a no-compression or fixed-bitrate run never probes the duration and
\* never creates a pass-log artifact; it attempts exactly one launch, of its
\* single-pass command, and its result is success exactly when that process
\* exited with code 0.
C14_SinglePassRun ==
    mode \in {"bitrate", "none"} =>
        /\ pc \in {"idle", "popen", "wait", "join", "returned", "done"}
        /\ duration = None /\ passlog = None /\ fs = {}
        /\ Len(launches) <= 1
        /\ \A i \in 1..Len(launches) : launches[i].phase = "single"
        /\ pc = "done" =>
             /\ Len(launches) = 1
             /\ (result.type = "return" /\ result.rc = 0)
                  <=> (Len(exits) = 1 /\ exits[1].rc = 0)

C14_Witness ==
    /\ mode = "none" /\ pc = "done" /\ Len(exits) = 1 /\ exits[1].rc = 0
    /\ result.type = "return" /\ result.rc = 0

\* C17: once pass 2 has run, the run returns pass 2's exit code and captured
\* diagnostics whether or not the pass-log files could be deleted.
C17_CleanupNeverChangesResult ==
    (mode = "size" /\ pc = "done" /\ Len(exits) = 2) =>
        /\ exits[1].rc = 0
        /\ result = Returned(exits[2].rc, Join(written))

C17_Witness ==
    /\ mode = "size" /\ pc = "done" /\ Len(exits) = 2
    /\ Glob(fs, passlog[1]) # {}
    /\ result.type = "return" /\ result.rc = 0 /\ Len(written) = 2

\* the reasons for which the structured query yields no value
StructuredFailed(e) ==
    \/ ~e.which \/ e.probeRaises \/ e.probeRc # 0
    \/ e.probeOut.kind = "empty" \/ e.probeOut.kind = "text"

\* the textual fallback yields no value
FallbackFailed(e) ==
    e.ffRaises \/ \A i \in 1..Len(e.ffLines) : ~(e.ffLines[i].dur /\ e.ffLines[i].ok)

\* C15: get_media_duration never raises; when the structured query gave a
\* value that value is returned (the fallback decides nothing), and when the
\* structured query and the fallback both fail the result is None.
C15_ProbeNeverRaises ==
    probeCall.called =>
        /\ ~probeCall.raised
        /\ ~StructuredFailed(probeCall.env[1]) =>
              probeCall.value = Some(probeCall.env[1].probeOut.val)
        /\ (StructuredFailed(probeCall.env[1]) /\ FallbackFailed(probeCall.env[1])) =>
              probeCall.value = None

\* C16: every value get_media_duration returns is None or a number of seconds
\* that is not negative.
C16_DurationNonNegative ==
    (probeCall.called /\ ~probeCall.raised) =>
        (probeCall.value = None \/ probeCall.value[1] >= 0)

HasCopy(c) == \E i \in 1..(Len(c) - 1) : c[i] = "-c" /\ c[i + 1] = "copy"

EndsWithFaststart(c, dst) ==
    /\ Len(c) >= 3
    /\ c[Len(c) - 2] = "-movflags" /\ c[Len(c) - 1] = "+faststart"
    /\ c[Len(c)] = dst

\* C19: a remux command holds the stream-copy flag and no quality, preset or
\* bitrate flag; a re-encode command holds the quality and the preset flag
\* with the values given and no stream-copy flag; both end with the
\* faststart flag followed by the destination path.
C19_RemuxAndReencodeFlags ==
    \A i \in 1..Len(builds) :
        /\ EndsWithFaststart(builds[i].out, OutputPath)
        /\ IF builds[i].reencode
           THEN /\ ~HasCopy(builds[i].out)
                /\ "-c" \notin Range(builds[i].out)
                /\ "-crf" \in Range(builds[i].out)
                /\ ArgAfter(builds[i].out, "-crf") = ToString(builds[i].crf)
                /\ "-preset" \in Range(builds[i].out)
                /\ ArgAfter(builds[i].out, "-preset") = builds[i].preset
           ELSE /\ HasCopy(builds[i].out)
                /\ Range(builds[i].out)
                     \cap {"-crf", "-preset", "-b:v", "-b:a"} = {}

C19_Witness ==
    /\ Len(builds) = 2
    /\ builds[1].reencode /\ ~builds[2].reencode

\* C20: two calls of build_ffmpeg_command with the same arguments return the
\* same argument list, whatever happened between them.
C20_BuildersPure ==
    \A i, j \in 1..Len(builds) :
        (/\ builds[i].reencode = builds[j].reencode
         /\ builds[i].crf = builds[j].crf
         /\ builds[i].preset = builds[j].preset)
        => builds[i].out = builds[j].out

\* C13: a request that carries the options of more than one mode (a target
\* size and a fixed video bitrate in the form) is refused as invalid input:
\* no mode is run for it.
C13_MixedRequestRejected ==
    (gui.pc = "done" /\ gui.compress_mb # "" /\ gui.vbr_k # "") =>
        gui.active = ""

\* two live runs never hold the same pass-log path
DistinctPassLogs ==
    \A r1, r2 \in RunIds :
        (r1 # r2 /\ runs[r1].pc \in LivePcs /\ runs[r2].pc \in LivePcs)
        => runs[r1].passlog # runs[r2].passlog

\* a step removes (or takes over) no file of a run that is still live after it
NoForeignDelete ==
    \A f \in disk :
        (\A g \in disk' : g.name # f.name \/ g.owner # f.owner)
        => runs'[f.owner].pc \notin LivePcs

\* C18: concurrent two-pass runs hold pairwise distinct pass-log paths, and
\* the cleanup of one run never removes a file of another run that has not
\* finished.
C18_RunsOwnTheirPassLogs ==
    []DistinctPassLogs /\ [][NoForeignDelete]_vars

C18_Witness ==
    \E r1, r2 \in RunIds :
        /\ runs[r1].pc = "done" /\ runs[r2].pc = "pass2"
        /\ \A f \in disk : f.owner = r2
        /\ \A suf \in LogSuffixes :
             [name |-> runs[r2].passlog[1] \o <<suf>>, owner |-> r2] \in disk

\* a step that starts an encoder process of the given pass
StartsEncoder(ph) ==
    /\ Len(launches') = Len(launches) + 1
    /\ Last(launches').phase = ph /\ Last(launches').started

\* a step in which the cleanup of the two-pass run acts: files are removed
\* or the run returns
CleanupActs ==
    /\ mode = "size"
    /\ \/ fs' # fs /\ fs' \subseteq fs
       \/ result.type = "none" /\ result'.type = "return"

Running == {i \in 1..Len(gui.threads) : gui.threads[i] = "run"}

\* while a worker runs the button is disabled and no second worker runs
ButtonDisabledWhileRunning ==
    Running # {} => (gui.btn = "disabled" /\ Cardinality(Running) = 1)

\* C22: the Convert button is disabled while a worker started from the window
\* runs, at most one such worker runs at a time, and every worker that has
\* ended scheduled a re-enable: once no worker runs and no callback is
\* queued, the button is enabled.
C22_ButtonGuardsWorker ==
    /\ ButtonDisabledWhileRunning
    /\ (gui.threads # <<>> /\ Running = {} /\ gui.pending = 0)
         => gui.btn = "normal"

\* the commands of the two passes, as they were handed to Popen
PassCmds(ph) ==
    {launches[i].cmd : i \in {j \in 1..Len(launches) : launches[j].phase = ph}}

\* C23: within a two-pass run the pass-2 command carries the video bitrate,
\* the preset and the pass-log path of the pass-1 command, and the summary
\* event announces the video and audio bitrates the commands carry.
C23_PassesShareParameters ==
    mode = "size" =>
        /\ \A c1 \in PassCmds("pass1"), c2 \in PassCmds("pass2") :
             /\ ArgAfter(c2, "-b:v") = ArgAfter(c1, "-b:v")
             /\ ArgAfter(c2, "-preset") = ArgAfter(c1, "-preset")
             /\ ArgAfter(c2, "-passlogfile") = ArgAfter(c1, "-passlogfile")
             /\ ArgAfter(c1, "-passlogfile") = passlog[1]
        /\ has_on_line =>
             /\ \A c \in PassCmds("pass1") \cup PassCmds("pass2") :
                  /\ events # <<>> /\ events[1].kind = "summary"
                  /\ Kbps(events[1].video) = ArgAfter(c, "-b:v")
             /\ \A c \in PassCmds("pass2") :
                  Kbps(events[1].audio) = ArgAfter(c, "-b:a")

C23_Witness ==
    /\ mode = "size" /\ has_on_line /\ pc = "done" /\ result.type = "return"
    /\ PassCmds("pass1") # {} /\ PassCmds("pass2") # {}
    /\ video_bitrate_k > MinVideoKbps /\ audio_bitrate_k = DefaultAudioK

====
